---- MODULE Spec2Model ----
(***************************************************************************)
(* The live-measurement plotters of greyltc/plotter:                       *)
(*   src/plotter/it_plotter.py  (current-vs-time,    graph4_latest)        *)
(*   src/plotter/iv_plotter.py  (current-vs-voltage, graph2_latest)        *)
(* One process runs one of the two files; `kind` says which.  Three        *)
(* threads of a process are modelled: the MQTT network loop calling        *)
(* on_message, the publish workers started by _publish, and the Dash       *)
(* callback update_graph_live.                                             *)
(*                                                                         *)
(* Numbers are integers.  Inputs are chosen so that every quotient the     *)
(* code forms with Python's true division is an integer (the areas divide  *)
(* 1000); IEEE infinity, which numpy yields for a division by zero, is the *)
(* value Inf.  A numpy array lives in `heap` and is named by its index, so *)
(* that two references to one array see each other's writes.               *)
(***************************************************************************)
EXTENDS Integers, Sequences, FiniteSets, TLC

VARIABLES
    kind,          \* which plotter this process is: "it_measurement" or "iv_measurement"
    heap,          \* the numpy arrays allocated so far, by reference
    graph_latest,  \* the deque graph4_latest / graph2_latest of {"msg": payload, "data": array ref}
    paused,        \* the deque paused
    config,        \* the global config
    workers,       \* the threads started by _publish, in start order
    h_pc,          \* on_message: where the network-loop thread is
    h_msg,         \* on_message: argument msg (topic, payload bytes)
    h_payload,     \* on_message: local `payload`, the decoded dict (process_* writes its "data")
    h_data,        \* on_message: local `data` (array ref)
    h_pdata,       \* on_message: local `pdata` (rows returned by process_iv/process_ivt)
    h_i,           \* on_message: next row the in-place slice assignment writes
    h_exc,         \* how the last call of on_message ended: "none" or the exception raised
    r_pc,          \* update_graph_live: where the Dash callback is
    r_latest,      \* update_graph_live: local g4_latest / g2_latest
    fig,           \* the figure held by the dcc.Graph component (State in, Output out)
    nMsgs,         \* number of messages delivered to on_message so far
    h_before,      \* history: the snapshot (metadata, Series contents) when the current message arrived
    h_w0,          \* history: number of workers when the current message arrived
    pushed,        \* history: every (metadata, Series contents) pair ever pushed
    r_obs,         \* history: the (metadata, Series contents) pair the last poll read
    scan0,         \* history: the sweep that seeded the table since the last clear
    scan1          \* history: the last later sweep process_iv accepted, and columns 2-3 before it

vars == <<kind, heap, graph_latest, paused, config, workers, h_pc, h_msg, h_payload, h_data,
          h_pdata, h_i, h_exc, r_pc, r_latest, fig, nMsgs, h_before, h_w0, pushed,
          r_obs, scan0, scan1>>

-----------------------------------------------------------------------------
(* Bounds of the model. *)

\* messages delivered to on_message in one behaviour
MaxMsgs == 3
\* rows of one current-vs-voltage sweep
MaxRows == 2
\* messages delivered in one behaviour when the other threads run too
MaxLiveMsgs == 2

-----------------------------------------------------------------------------
(* Values. *)

Kinds == {"it_measurement", "iv_measurement"}

\* IEEE +infinity, the result numpy gives for x / 0 with x > 0
Inf == 10^9

\* a quotient that multiplies by the area
TrueDiv_times(n, d) == n * d

\* Python's x / area on inputs whose quotient is an integer
TrueDiv(n, d) == IF d > 0 THEN n \div d ELSE -(n \div (-d))

\* numpy's x / area: as Python's, but a zero divisor gives +-inf (n # 0) and no exception
NpDiv(n, d) == IF d = 0 THEN (IF n > 0 THEN Inf ELSE -Inf) ELSE TrueDiv(n, d)

\* float multiplication with an infinite right operand (a # 0)
FMul(a, b) ==
    IF b = Inf \/ b = -Inf THEN (IF a > 0 THEN b ELSE -b) ELSE a * b

\* a numpy array of shape (Len(rows), cols)
Array(cols, rows) == [cols |-> cols, rows |-> rows]

\* np.empty((0, cols))
NpEmpty(cols) == Array(cols, <<>>)

\* collections.deque(maxlen=1)
DequeMaxlen == 1

\* append on a deque without maxlen: nothing is discarded
DequeAppend_growing(d, x) == Append(d, x)

\* deque.append on a deque of maxlen DequeMaxlen: when the deque is full the item at
\* the other end, d[0], is discarded
DequeAppend(d, x) ==
    IF Len(d) < DequeMaxlen THEN Append(d, x)
    ELSE Append(SubSeq(d, Len(d) - DequeMaxlen + 2, Len(d)), x)

\* the column count of it_plotter.py pasted into iv_plotter.py
SeriesCols_pasted(k) == 3

\* the column count of the Series of each kind: np.empty((0, 3)) / np.empty((0, 4))
SeriesCols(k) == IF k = "it_measurement" THEN 3 ELSE 4

\* pickle.dumps: the bytes carry the object; pickle.loads gives it back or raises
PickleDumps(obj) == [ok |-> TRUE, obj |-> obj]
PickleLoadsOk(bytes) == bytes.ok
PickleLoads(bytes) == bytes.obj

RawTopic(k) == "data/raw/" \o k
ProcessedTopic(k) == "data/processed/" \o k
RunTopic == "measurement/run"
PauseTopic == "plotter/pause"

-----------------------------------------------------------------------------
(* Inputs: the messages the broker may deliver. *)

\* a raw row (voltage, current, time, status) as the source-measure unit reports it
RawRow(v, c) == <<v, c, 10 + v, 0>>

\* device areas; both divide 1000
Areas == {2, 5}

\* areas the spec calls a computation failure
BadAreas == {0, -2}

Idns == {"a", "b"}

\* the first w columns of a row
Truncate(row, w) == SubSeq(row, 1, w)

\* a mapping without one of its keys
Without(d, key) == [f \in (DOMAIN d) \ {key} |-> d[f]]

DataPayload(data, area, idn) ==
    [data |-> data, pixel |-> [area |-> area], clear |-> FALSE, idn |-> idn]

ClearPayloads == {[clear |-> TRUE, idn |-> i] : i \in Idns}

\* malformed variants of one well-formed payload
Defects(good, narrow) ==
    {Without(good, "clear"), Without(good, "pixel")}
    \cup {[good EXCEPT !.pixel.area = a] : a \in BadAreas}
    \cup {[good EXCEPT !.data = d] : d \in narrow}

ItRows == {RawRow(2, 1), RawRow(3, 4), RawRow(1, 3)}

ItPayloads ==
    {DataPayload(r, 2, "a") : r \in ItRows}
    \cup {DataPayload(RawRow(2, 1), 5, "b")}
    \cup Defects(DataPayload(RawRow(2, 1), 2, "a"),
                 {Truncate(RawRow(2, 1), w) : w \in 1..3})
    \cup ClearPayloads

\* a sweep of n rows with rising bias, and one with falling bias
Forward(n) == [i \in 1..n |-> RawRow(i + 1, i)]
Reverse(n) == [i \in 1..n |-> RawRow(n + 2 - i, n + 2 - i)]

\* sweeps of 1..MaxRows rows
Sweeps == {Forward(n) : n \in 1..MaxRows} \cup {Reverse(n) : n \in 1..MaxRows}

IvPayloads ==
    {DataPayload(s, 2, "a") : s \in Sweeps}
    \cup {DataPayload(Forward(1), 5, "b")}
    \cup Defects(DataPayload(Forward(1), 2, "a"),
                 {<<>>} \cup {<<Truncate(RawRow(2, 1), w)>> : w \in 1..3})
    \cup ClearPayloads

DataPayloads(k) == IF k = "it_measurement" THEN ItPayloads ELSE IvPayloads

Configs == {[user |-> "x"], [user |-> "y", smu |-> "k2400"]}

RunPayloads == {[config |-> c] : c \in Configs} \cup {[request |-> "stop"]}

\* a Python scalar, by its repr
Py(repr) == [repr |-> repr]
PyFalse == Py("False")

\* values a pause payload may carry
PausePayloads == {Py("False"), Py("True"), Py("None")}

\* what the broker may deliver: any topic, pickled payloads and bytes that do not unpickle
Messages(k) ==
    {[topic |-> RawTopic(k), payload |-> PickleDumps(p)] : p \in DataPayloads(k)}
    \cup {[topic |-> RunTopic, payload |-> PickleDumps(p)] : p \in RunPayloads}
    \cup {[topic |-> PauseTopic, payload |-> PickleDumps(p)] : p \in PausePayloads}
    \cup {[topic |-> RawTopic(o), payload |-> PickleDumps([clear |-> TRUE, idn |-> "a"])] :
            o \in Kinds \ {k}}
    \cup {[topic |-> RawTopic(o), payload |-> [ok |-> FALSE]] : o \in Kinds}

-----------------------------------------------------------------------------
(* The derived-quantity processors. *)

\* the exception the lookups payload["data"] and payload["pixel"]["area"] raise, or "none"
LookupExc(payload) ==
    IF "data" \notin DOMAIN payload THEN "KeyError"
    ELSE IF "pixel" \notin DOMAIN payload THEN "KeyError"
    ELSE IF "area" \notin DOMAIN payload.pixel THEN "KeyError"
    ELSE "none"

\* it_plotter.process_ivt up to its return value: the exception raised, or the list
\* returned, the payload with the list put back, and the call of _publish made
process_ivt(payload, k) ==
    IF LookupExc(payload) # "none" THEN [exc |-> LookupExc(payload)]
    ELSE LET data == payload.data
             area == payload.pixel.area
         IN  IF Len(data) < 2 THEN [exc |-> "IndexError"]
             ELSE IF area = 0 THEN [exc |-> "ZeroDivisionError"]
             ELSE LET j == TrueDiv(data[2] * 1000, area)
                      p == data[1] * j
                      out == Append(Append(data, j), p)
                      sent == [payload EXCEPT !.data = out]
                  IN  [exc |-> "none", pdata |-> out, payload |-> sent,
                       topic |-> ProcessedTopic(k), bytes |-> PickleDumps(sent)]

\* iv_plotter.process_iv, likewise; pdata is the list of rows of the returned array
process_iv(payload) ==
    IF LookupExc(payload) # "none" THEN [exc |-> LookupExc(payload)]
    ELSE LET data == payload.data
             area == payload.pixel.area
         IN  IF Len(data) = 0 THEN [exc |-> "IndexError"]
             ELSE IF \E i \in 1..Len(data) : Len(data[i]) < 2 THEN [exc |-> "IndexError"]
             ELSE LET j(i) == NpDiv(data[i][2] * 1000, area)
                      p(i) == FMul(data[i][1], j(i))
                      out == [i \in 1..Len(data) |-> Append(Append(data[i], j(i)), p(i))]
                      sent == [payload EXCEPT !.data = out]
                  IN  [exc |-> "none", pdata |-> out, payload |-> sent,
                       topic |-> ProcessedTopic("iv_measurement"),
                       bytes |-> PickleDumps(sent)]

process(payload, k) ==
    IF k = "it_measurement" THEN process_ivt(payload, k) ELSE process_iv(payload)

-----------------------------------------------------------------------------
(* The series accumulators. *)

\* a fold that leaves the appended row's offset at 0
Normalize_skipped(rows) == rows

\* data[:, 0] = data[:, -1] - data[0, -1]
Normalize(rows) ==
    [i \in 1..Len(rows) |->
        [rows[i] EXCEPT ![1] = rows[i][Len(rows[i])] - rows[1][Len(rows[1])]]]

\* it_plotter.on_message, else branch: the array the new snapshot will hold
AppendPoint(arr, pdata) ==
    LET t == pdata[3]
        j == pdata[5]
    IN  Array(arr.cols, Normalize(Append(arr.rows, <<0, j, t>>)))

\* pdata[:, [0, 4]]
Columns04(pdata) == [i \in 1..Len(pdata) |-> <<pdata[i][1], pdata[i][5]>>]

\* iv_plotter.on_message, len(data) == 0: columns 0-1 from the sweep, zeros in 2-3
SeedTable(src) == Array(4, [i \in 1..Len(src) |-> src[i] \o <<0, 0>>])

\* numpy's broadcasting rule for data[:, 2:] = src
Broadcasts(src, arr) == Len(src) = Len(arr.rows) \/ Len(src) = 1

\* a slice assignment that lands in columns 0-1: data[:, :2] = src
WriteRow_first_slot(arr, src, i) ==
    LET s == IF Len(src) = 1 THEN src[1] ELSE src[i]
    IN  [arr EXCEPT !.rows[i] = s \o <<@[3], @[4]>>]

\* an assignment that rebuilds the table from the new sweep: data = src next to src
WriteRow_rebuilding(arr, src, i) ==
    [arr EXCEPT !.rows = [n \in 1..Len(src) |-> src[n] \o src[n]]]

\* row i of the slice assignment data[:, 2:] = src
WriteRow(arr, src, i) ==
    LET s == IF Len(src) = 1 THEN src[1] ELSE src[i]
    IN  [arr EXCEPT !.rows[i] = <<@[1], @[2]>> \o s]

-----------------------------------------------------------------------------
(* The figure formatters. *)

RECURSIVE SeqMin(_)
SeqMin(s) == IF Len(s) = 1 THEN s[1]
             ELSE LET m == SeqMin(Tail(s)) IN IF s[1] < m THEN s[1] ELSE m

RECURSIVE SeqMax(_)
SeqMax(s) == IF Len(s) = 1 THEN s[1]
             ELSE LET m == SeqMax(Tail(s)) IN IF s[1] > m THEN s[1] ELSE m

\* data[:, c] (c counted from 0, as in the source)
Column(arr, c) == [i \in 1..Len(arr.rows) |-> arr.rows[i][c + 1]]

\* fig4 / fig2 as first laid out: empty traces, no axis range, subplot title "-"
InitialFigure(k) ==
    [data |-> IF k = "it_measurement" THEN <<[x |-> <<>>, y |-> <<>>]>>
              ELSE <<[x |-> <<>>, y |-> <<>>], [x |-> <<>>, y |-> <<>>]>>,
     xrange |-> <<>>, yrange |-> <<>>, title |-> "-"]

\* it_plotter.format_figure_1 (format_figure_4 forwards to it)
format_figure_1(data, f, title) ==
    IF Len(data.rows) = 0 THEN f
    ELSE [f EXCEPT !.data[1] = [x |-> Column(data, 0), y |-> Column(data, 1)],
                   !.xrange = <<SeqMin(Column(data, 0)), SeqMax(Column(data, 0))>>,
                   !.yrange = <<SeqMin(Column(data, 1)), SeqMax(Column(data, 1))>>,
                   !.title = title]

format_figure_4(data, f, title) == format_figure_1(data, f, title)

\* iv_plotter.format_figure_2
format_figure_2(data, f, title) ==
    IF Len(data.rows) = 0 THEN f
    ELSE LET xs == Column(data, 0) \o Column(data, 2)
             ys == Column(data, 1) \o Column(data, 3)
             second == IF \A i \in 1..Len(data.rows) : data.rows[i][3] # 0
                       THEN [x |-> Column(data, 2), y |-> Column(data, 3)]
                       ELSE f.data[2]
         IN  [f EXCEPT !.data = <<[x |-> Column(data, 0), y |-> Column(data, 1)], second>>,
                       !.xrange = <<SeqMin(xs), SeqMax(xs)>>,
                       !.yrange = <<SeqMin(ys), SeqMax(ys)>>,
                       !.title = title]

format_figure(k, data, f, title) ==
    IF k = "it_measurement" THEN format_figure_4(data, f, title)
    ELSE format_figure_2(data, f, title)

-----------------------------------------------------------------------------
(* State. *)

\* what a reader of the cache slot sees now: the metadata and the Series contents
Snapshot == [msg |-> graph_latest[1].msg, data |-> heap[graph_latest[1].data]]

\* the Series of the cached snapshot
Series == heap[graph_latest[1].data]

NoMsg == [topic |-> "", payload |-> [ok |-> FALSE]]
NoPayload == [none |-> TRUE]
NoScan == [bj |-> <<>>, width |-> 0, before |-> <<>>]

\* the claim's (bias, j) rows of a raw sweep: j = I * 1000 / A
BiasJ(raw) ==
    [i \in 1..Len(raw.data) |->
        <<raw.data[i][1], NpDiv(raw.data[i][2] * 1000, raw.pixel.area)>>]

\* columns 2-3 of a table
Columns23(arr) == [i \in 1..Len(arr.rows) |-> <<arr.rows[i][3], arr.rows[i][4]>>]
Columns01(arr) == [i \in 1..Len(arr.rows) |-> <<arr.rows[i][1], arr.rows[i][2]>>]

Init ==
    /\ kind \in Kinds
    /\ heap = <<NpEmpty(SeriesCols(kind))>>
    /\ graph_latest = DequeAppend(<<>>, [msg |-> [clear |-> TRUE, idn |-> "-"], data |-> 1])
    /\ paused = DequeAppend(<<>>, PyFalse)
    /\ config = [k \in {} |-> ""]
    /\ workers = <<>>
    /\ h_pc = "idle"
    /\ h_msg = NoMsg
    /\ h_payload = NoPayload
    /\ h_data = 0
    /\ h_pdata = <<>>
    /\ h_i = 0
    /\ h_exc = "none"
    /\ r_pc = "idle"
    /\ r_latest = [msg |-> [clear |-> TRUE, idn |-> "-"], data |-> 1]
    /\ fig = InitialFigure(kind)
    /\ nMsgs = 0
    /\ h_before = [msg |-> [clear |-> TRUE, idn |-> "-"], data |-> NpEmpty(SeriesCols(kind))]
    /\ h_w0 = 0
    /\ pushed = {[msg |-> [clear |-> TRUE, idn |-> "-"], data |-> NpEmpty(SeriesCols(kind))]}
    /\ r_obs = [msg |-> [clear |-> TRUE, idn |-> "-"], data |-> NpEmpty(SeriesCols(kind))]
    /\ scan0 = NoScan
    /\ scan1 = NoScan

readerVars == <<r_pc, r_latest, fig, r_obs>>
localVars == <<h_data, h_pdata, h_i>>
scanVars == <<scan0, scan1>>

-----------------------------------------------------------------------------
(* on_message, run by the network-loop thread. *)

\* on_message returns or raises: its locals die
Return(exc) ==
    /\ h_pc' = "idle"
    /\ h_exc' = exc
    /\ h_data' = 0
    /\ h_pdata' = <<>>
    /\ h_i' = 0

\* a push that is dropped while the plotter is paused
Push_unless_paused(payload, ref, arrays) ==
    IF paused[1] = PyFalse
    THEN /\ graph_latest' = DequeAppend(graph_latest, [msg |-> payload, data |-> ref])
         /\ pushed' = pushed \cup {[msg |-> payload, data |-> arrays[ref]]}
    ELSE UNCHANGED <<graph_latest, pushed>>

\* graph4_latest.append / graph2_latest.append of {"msg": payload, "data": data}
Push(payload, ref, arrays) ==
    /\ graph_latest' = DequeAppend(graph_latest, [msg |-> payload, data |-> ref])
    /\ pushed' = pushed \cup {[msg |-> payload, data |-> arrays[ref]]}

\* a _publish that joins the workers started before it
_publish_joining(topic, payload) ==
    /\ \A i \in 1..Len(workers) : workers[i].pc \in {"done", "raised"}
    /\ workers' = Append(workers, [topic |-> topic, payload |-> payload, pc |-> "started"])

\* a _publish that starts a second worker for the same record
_publish_twice(topic, payload) ==
    workers' = workers \o <<[topic |-> topic, payload |-> payload, pc |-> "started"],
                            [topic |-> topic, payload |-> payload, pc |-> "started"]>>

\* threading.Thread(target=_publish_worker, args=(topic, payload)).start()
_publish(topic, payload) ==
    workers' = Append(workers, [topic |-> topic, payload |-> payload, pc |-> "started"])

\* a read_config that merges the new configuration into the one it holds
read_config_merging(payload) ==
    IF "config" \in DOMAIN payload
    THEN /\ config' = [f \in (DOMAIN config) \cup (DOMAIN payload.config) |->
                         IF f \in DOMAIN payload.config THEN payload.config[f] ELSE config[f]]
         /\ Return("none")
    ELSE config' = config /\ Return("KeyError")

\* read_config: global config; config = payload["config"]
read_config(payload) ==
    IF "config" \in DOMAIN payload
    THEN config' = payload.config /\ Return("none")
    ELSE config' = config /\ Return("KeyError")

\* a pause handler that pushes into the snapshot deque instead of the pause deque
OnPause_wrong_deque(payload) ==
    /\ paused' = paused
    /\ heap' = heap
    /\ Push(payload, graph_latest[1].data, heap)

\* the plotter/pause branch: paused.append(payload)
OnPause(payload) ==
    /\ paused' = DequeAppend(paused, payload)
    /\ UNCHANGED <<heap, graph_latest, pushed>>

\* the data branch up to `if payload["clear"] is True`, and the whole clear branch
OnData(payload) ==
    IF "clear" \notin DOMAIN payload
    THEN /\ Return("KeyError")
         /\ UNCHANGED <<heap, graph_latest, pushed, scanVars>>
    ELSE IF payload.clear = TRUE
    THEN /\ heap' = Append(heap, NpEmpty(SeriesCols(kind)))
         /\ Push(payload, Len(heap) + 1, heap')
         /\ Return("none")
         /\ scan0' = NoScan
         /\ scan1' = NoScan
    ELSE /\ h_pc' = "process"
         /\ h_data' = graph_latest[1].data
         /\ UNCHANGED <<heap, graph_latest, pushed, scanVars, h_pdata, h_i, h_exc>>

\* a dispatch that takes the data topic of either plotter
OwnDataTopic_either(t) == \E k \in Kinds : t = RawTopic(k)

\* msg.topic == "data/raw/it_measurement" / msg.topic == "data/raw/iv_measurement"
OwnDataTopic(t) == t = RawTopic(kind)

\* a message arrives: pickle.loads and the dispatch on msg.topic
Receive(m) ==
    /\ h_pc = "idle"
    /\ nMsgs' = nMsgs + 1
    /\ h_msg' = m
    /\ h_before' = Snapshot
    /\ h_w0' = Len(workers)
    /\ UNCHANGED <<kind, workers, readerVars>>
    /\ IF ~PickleLoadsOk(m.payload)
       THEN /\ Return("UnpicklingError")
            /\ h_payload' = NoPayload
            /\ UNCHANGED <<heap, graph_latest, pushed, scanVars, paused, config>>
       ELSE LET payload == PickleLoads(m.payload) IN
            /\ h_payload' = payload
            /\ IF OwnDataTopic(m.topic)
               THEN OnData(payload) /\ UNCHANGED <<paused, config>>
               ELSE IF m.topic = RunTopic
               THEN /\ read_config(payload)
                    /\ UNCHANGED <<heap, graph_latest, pushed, scanVars, paused>>
               ELSE IF m.topic = PauseTopic
               THEN OnPause(payload) /\ Return("none") /\ UNCHANGED <<scanVars, config>>
               ELSE /\ Return("none")
                    /\ UNCHANGED <<heap, graph_latest, pushed, scanVars, paused, config>>

\* pdata = process_ivt(payload, "it_measurement") / process_iv(payload)
Process ==
    /\ h_pc = "process"
    /\ LET r == process(h_payload, kind) IN
       IF r.exc # "none"
       THEN /\ Return(r.exc)
            /\ UNCHANGED <<workers, h_payload, scan1>>
       ELSE /\ _publish(r.topic, r.bytes)
            /\ h_payload' = r.payload
            /\ h_pdata' = r.pdata
            /\ h_pc' = "fold"
            /\ scan1' = IF kind = "iv_measurement" /\ Len(heap[h_data].rows) > 0
                        THEN [bj |-> BiasJ(h_payload), width |-> Len(h_payload.data[1]),
                              before |-> Columns23(heap[h_data])]
                        ELSE scan1
            /\ UNCHANGED <<h_data, h_i, h_exc>>
    /\ UNCHANGED <<kind, heap, graph_latest, paused, config, h_msg, readerVars, nMsgs,
                   h_before, h_w0, pushed, scan0>>

\* it_plotter.on_message lines 213-221: a new array with the point appended
FoldIt ==
    /\ h_pc = "fold"
    /\ kind = "it_measurement"
    /\ IF Len(h_pdata) < 5
       THEN Return("IndexError") /\ UNCHANGED heap
       ELSE /\ heap' = Append(heap, AppendPoint(heap[h_data], h_pdata))
            /\ h_data' = Len(heap) + 1
            /\ h_pc' = "push"
            /\ UNCHANGED <<h_pdata, h_i, h_exc>>
    /\ UNCHANGED <<kind, graph_latest, paused, config, workers, h_msg, h_payload,
                   readerVars, nMsgs, h_before, h_w0, pushed, scanVars>>

\* iv_plotter.on_message lines 203-208 up to the first element written
FoldIv ==
    /\ h_pc = "fold"
    /\ kind = "iv_measurement"
    /\ IF \E i \in 1..Len(h_pdata) : Len(h_pdata[i]) < 5
       THEN Return("IndexError") /\ UNCHANGED heap
       ELSE IF Len(heap[h_data].rows) = 0
       THEN /\ heap' = Append(heap, SeedTable(Columns04(h_pdata)))
            /\ h_data' = Len(heap) + 1
            /\ h_pc' = "push"
            /\ UNCHANGED <<h_pdata, h_i, h_exc>>
       ELSE IF ~Broadcasts(Columns04(h_pdata), heap[h_data])
       THEN Return("ValueError") /\ UNCHANGED heap
       ELSE /\ h_pc' = "write"
            /\ h_i' = 1
            /\ UNCHANGED <<heap, h_data, h_pdata, h_exc>>
    /\ UNCHANGED <<kind, graph_latest, paused, config, workers, h_msg, h_payload,
                   readerVars, nMsgs, h_before, h_w0, pushed, scanVars>>

\* data[:, 2:] = ..., one row of the cached array at a time (numpy copies without the GIL)
WriteIv ==
    /\ h_pc = "write"
    /\ heap' = [heap EXCEPT ![h_data] = WriteRow(@, Columns04(h_pdata), h_i)]
    /\ IF h_i < Len(heap[h_data].rows)
       THEN h_i' = h_i + 1 /\ h_pc' = "write"
       ELSE h_i' = 0 /\ h_pc' = "push"
    /\ UNCHANGED <<kind, graph_latest, paused, config, workers, h_msg, h_payload, h_data,
                   h_pdata, h_exc, readerVars, nMsgs, h_before, h_w0, pushed, scanVars>>

\* graph4_latest.append / graph2_latest.append at the end of the data branch
PushData ==
    /\ h_pc = "push"
    /\ Push(h_payload, h_data, heap)
    /\ Return("none")
    /\ scan0' = IF kind = "iv_measurement" /\ Len(h_before.data.rows) = 0
                THEN [bj |-> BiasJ(PickleLoads(h_msg.payload)),
                      width |-> Len(PickleLoads(h_msg.payload).data[1]),
                      before |-> Columns01(heap[h_data])]
                ELSE scan0
    /\ UNCHANGED <<kind, heap, paused, config, workers, h_msg, h_payload, readerVars,
                   nMsgs, h_before, h_w0, scan1>>

\* the network loop calls on_message with one of msgs, at most cap times
Deliver(msgs, cap) == nMsgs < cap /\ \E m \in msgs : Receive(m)

\* the rest of a call of on_message on the data topic
on_message == Process \/ FoldIt \/ FoldIv \/ WriteIv \/ PushData

handlerVars == <<h_pc, h_msg, h_payload, h_data, h_pdata, h_i, h_exc, nMsgs, h_before,
                 h_w0, pushed, scanVars>>
sharedVars == <<kind, heap, graph_latest, paused, config>>

-----------------------------------------------------------------------------
(* _publish_worker, one thread per call of _publish. *)

\* a worker that publishes and does not wait for the acknowledgement
WorkerAfter_no_wait(pc) ==
    IF pc = "started" THEN "connected"
    ELSE IF pc = "connected" THEN "looping"
    ELSE IF pc = "looping" THEN "waiting"
    ELSE IF pc = "waiting" THEN "stopped"
    ELSE "done"

\* the statement a worker at pc runs next, and where it is afterwards
WorkerAfter(pc) ==
    IF pc = "started" THEN "connected"        \* mqttc = mqtt.Client(); mqttc.connect(host)
    ELSE IF pc = "connected" THEN "looping"   \* mqttc.loop_start()
    ELSE IF pc = "looping" THEN "waiting"     \* mqttc.publish(topic, payload, 2)
    ELSE IF pc = "waiting" THEN "acked"       \* .wait_for_publish() returns
    ELSE IF pc = "acked" THEN "stopped"       \* mqttc.loop_stop()
    ELSE "done"                               \* mqttc.disconnect()

\* worker i runs its next statement; wait_for_publish returns only when the broker
\* has acknowledged, which may never happen
WorkerStep(i) ==
    /\ workers[i].pc \notin {"done", "raised"}
    /\ workers' = [workers EXCEPT ![i].pc = WorkerAfter(@)]
    /\ UNCHANGED <<sharedVars, handlerVars, readerVars>>

\* mqttc.connect raises (broker unreachable): the thread dies
WorkerRaise(i) ==
    /\ workers[i].pc = "started"
    /\ workers' = [workers EXCEPT ![i].pc = "raised"]
    /\ UNCHANGED <<sharedVars, handlerVars, readerVars>>

_publish_worker ==
    \/ \E i \in 1..Len(workers) : WorkerStep(i)
    \/ \E i \in 1..Len(workers) : WorkerRaise(i)

\* the records that reached the broker on the processed-data topics
Republished ==
    {[topic |-> workers[i].topic, payload |-> workers[i].payload] :
        i \in {n \in 1..Len(workers) :
                 workers[n].pc \in {"waiting", "acked", "stopped", "done"}}}

-----------------------------------------------------------------------------
(* update_graph_live, run by the Dash server every 250 ms. *)

\* a poll gated by `if not paused[0]`: None redraws as False does
Poll_falsy ==
    /\ r_pc = "idle"
    /\ r_pc' = IF paused[1] \in {PyFalse, Py("None")} THEN "fetch" ELSE "idle"
    /\ UNCHANGED <<sharedVars, workers, handlerVars, r_latest, fig, r_obs>>

\* `if paused[0] is False`, and the return of the figure as given when it is not
Poll ==
    /\ r_pc = "idle"
    /\ r_pc' = IF paused[1] = PyFalse THEN "fetch" ELSE "idle"
    /\ UNCHANGED <<sharedVars, workers, handlerVars, r_latest, fig, r_obs>>

\* g4_latest = graph4_latest[0] / g2_latest = graph2_latest[0]
Fetch ==
    /\ r_pc = "fetch"
    /\ r_latest' = graph_latest[1]
    /\ r_pc' = "format"
    /\ UNCHANGED <<sharedVars, workers, handlerVars, fig, r_obs>>

\* format_figure_4 / format_figure_2 on g_latest["data"] and g_latest["msg"]["idn"]
Format ==
    /\ r_pc = "format"
    /\ fig' = format_figure(kind, heap[r_latest.data], fig, r_latest.msg.idn)
    /\ r_obs' = [msg |-> r_latest.msg, data |-> heap[r_latest.data]]
    /\ r_pc' = "idle"
    /\ UNCHANGED <<sharedVars, workers, handlerVars, r_latest>>

update_graph_live == Poll \/ Fetch \/ Format

-----------------------------------------------------------------------------
(* Specifications. *)

\* ingestion alone: the network-loop thread, one message after another
Next == Deliver(Messages(kind), MaxMsgs) \/ on_message

Spec == Init /\ [][Next]_vars

\* the network-loop thread and the Dash callback, interleaved statement by statement
NextPoll == Deliver(Messages(kind), MaxLiveMsgs) \/ on_message \/ update_graph_live

SpecPoll == Init /\ [][NextPoll]_vars

\* the messages fed while publish workers run: data that is republished, data that
\* fails after it was republished, a clear, a pause and a run configuration
PublishMessages(k) ==
    {[topic |-> RawTopic(k), payload |-> PickleDumps(p)] :
        p \in IF k = "it_measurement"
              THEN {DataPayload(RawRow(2, 1), 2, "a"), DataPayload(RawRow(3, 4), 5, "b"),
                    DataPayload(Truncate(RawRow(2, 1), 2), 2, "a"),
                    [clear |-> TRUE, idn |-> "a"]}
              ELSE {DataPayload(Forward(1), 2, "a"), DataPayload(Forward(2), 5, "b"),
                    DataPayload(<<Truncate(RawRow(2, 1), 2)>>, 2, "a"),
                    [clear |-> TRUE, idn |-> "a"]}}
    \cup {[topic |-> RunTopic, payload |-> PickleDumps([config |-> [user |-> "x"]])],
          [topic |-> PauseTopic, payload |-> PickleDumps(Py("True"))]}

\* the network-loop thread and the publish workers, interleaved statement by statement
NextPublish ==
    Deliver(PublishMessages(kind), MaxLiveMsgs) \/ on_message \/ _publish_worker

SpecPublish == Init /\ [][NextPublish]_vars

-----------------------------------------------------------------------------
(* Properties. *)

\* the last message delivered, decoded (a mapping without keys if it did not unpickle)
LastRaw == IF PickleLoadsOk(h_msg.payload) THEN PickleLoads(h_msg.payload) ELSE NoPayload

\* on_message has returned from a message on this plotter's data topic
HandledData == h_pc = "idle" /\ h_msg.topic = RawTopic(kind) /\ PickleLoadsOk(h_msg.payload)

\* ... whose clear field is True / is present and not True
HandledClear == HandledData /\ "clear" \in DOMAIN LastRaw /\ LastRaw.clear = TRUE
HandledSweep == HandledData /\ "clear" \in DOMAIN LastRaw /\ LastRaw.clear # TRUE

Zeros(n) == [i \in 1..n |-> <<0, 0>>]

\* C1 (as claimed): the (metadata, Series) pair a poll of update_graph_live reads is
\* the pair of one single push: never the metadata of one push with a Series that
\* was not pushed with it.
C1_SnapshotAtomicity == r_obs \in pushed

C3_TimeNormalization ==
    kind = "it_measurement" =>
        \A i \in 1..Len(Series.rows) :
            Series.rows[i][1] = Series.rows[i][3] - Series.rows[1][3]

\* C3 witness: three rows folded in one at a time, with three different offsets.
C3_Witness ==
    /\ kind = "it_measurement"
    /\ Len(Series.rows) = 3
    /\ Cardinality({Series.rows[i][1] : i \in 1..3}) = 3

\* C4: after a clear message the cached Series has zero rows and 3 (current-vs-time)
\* or 4 (current-vs-voltage) columns and the snapshot's metadata is that message;
\* the first data message handled on an empty Series leaves only its own rows.
C4_ClearResets ==
    /\ HandledClear =>
          /\ Series = [cols |-> IF kind = "it_measurement" THEN 3 ELSE 4, rows |-> <<>>]
          /\ Snapshot.msg = LastRaw
    /\ (HandledSweep /\ h_exc = "none" /\ Len(h_before.data.rows) = 0) =>
          LET d == Snapshot.msg.data IN
          Series.rows = IF kind = "it_measurement"
                        THEN << <<0, d[5], d[3]>> >>
                        ELSE [i \in 1..Len(d) |-> <<d[i][1], d[i][5], 0, 0>>]

\* C4 witness: a clear message handled while the Series had rows.
C4_Witness == HandledClear /\ Len(h_before.data.rows) > 0 /\ nMsgs > 1

\* the claim's derived values of one raw row
Derived(row, area) == <<(row[2] * 1000) \div area, row[1] * ((row[2] * 1000) \div area)>>

\* the claim's augmented data of a raw payload
Augmented(raw) ==
    IF kind = "it_measurement" THEN raw.data \o Derived(raw.data, raw.pixel.area)
    ELSE [i \in 1..Len(raw.data) |-> raw.data[i] \o Derived(raw.data[i], raw.pixel.area)]

\* C5: when process_ivt / process_iv has returned for a payload with area > 0, the
\* rows it returned are the raw rows followed by j = I*1000/A and p = V*j, and the
\* record handed to _publish is the payload with those rows, on the processed topic.
C5_DerivedQuantities ==
    (h_pc = "fold" /\ LastRaw.pixel.area > 0) =>
        /\ h_pdata = Augmented(LastRaw)
        /\ workers[Len(workers)].payload = PickleDumps([LastRaw EXCEPT !.data = Augmented(LastRaw)])
        /\ workers[Len(workers)].topic = ProcessedTopic(kind)

\* C5 witness: process_iv has returned for a two-row sweep.
C5_Witness ==
    /\ h_pc = "fold" /\ kind = "iv_measurement"
    /\ Len(LastRaw.data) = 2 /\ LastRaw.pixel.area > 0

\* C6: handling a plotter/pause message replaces the pause flag by the payload and
\* leaves the snapshot, its Series, the config and the records handed to the
\* republisher as they were.
C6_PauseIndependence ==
    [][(h_pc = "idle" /\ nMsgs' = nMsgs + 1 /\ h_msg'.topic = PauseTopic) =>
          /\ paused'[1] = PickleLoads(h_msg'.payload)
          /\ h_pc' = "idle"
          /\ UNCHANGED <<graph_latest, heap, config, workers, pushed>>]_vars

\* C6 witness: a pause message handled while the Series has rows and a record was
\* republished.
C6_Witness ==
    /\ h_pc = "idle" /\ h_msg.topic = PauseTopic /\ paused[1] = Py("True")
    /\ Len(Series.rows) > 0 /\ Len(workers) > 0

\* C7 (as claimed): every record handed to the republisher belongs to a message
\* whose snapshot has already been pushed.
C7_PushBeforeSend ==
    \A i \in 1..Len(workers) :
        \E s \in pushed : s.msg = PickleLoads(workers[i].payload)

\* C8 (as claimed): when on_message has raised on a data message, the snapshot is
\* what it was when the message arrived and no record of it was handed to the
\* republisher.
C8_FailureAtomicity ==
    (HandledData /\ h_exc # "none") => (Snapshot = h_before /\ Len(workers) = h_w0)

\* C9 (as claimed): a data message that is not a clear and whose area is zero or
\* negative leaves the snapshot unchanged and hands no record to the republisher.
C9_NonPositiveArea ==
    (HandledSweep /\ "pixel" \in DOMAIN LastRaw /\ LastRaw.pixel.area <= 0) =>
        (Snapshot = h_before /\ Len(workers) = h_w0)

\* C10: on_message never waits for a publish worker: a message being handled can
\* always take its next step and a new message can always be taken, whatever the
\* workers are doing; and a step of a worker (connecting, raising, being
\* acknowledged, ...) leaves the snapshot, the pause flag and the config alone.
C10_NoBackpressure ==
    /\ [](h_pc # "idle" => ENABLED on_message)
    /\ []((h_pc = "idle" /\ nMsgs < MaxLiveMsgs)
            => ENABLED Deliver(PublishMessages(kind), MaxLiveMsgs))
    /\ [][(Len(workers') = Len(workers) /\ workers' # workers)
            => UNCHANGED <<graph_latest, heap, paused, config>>]_vars

\* C10 witness: a second data message was handled and pushed while the worker of
\* the first still waits for its acknowledgement and its own has not connected.
C10_Witness ==
    /\ h_pc = "idle" /\ h_exc = "none" /\ Len(workers) = 2
    /\ workers[1].pc = "waiting" /\ workers[2].pc = "started"
    /\ Snapshot.msg = PickleLoads(workers[2].payload)

\* C11: the snapshot deque and the pause deque each hold exactly one item in every
\* state; before any message they hold (clear metadata with idn "-", an empty
\* Series of 3 resp. 4 columns) and False; an append makes the appended payload the
\* item that index 0 reads, and update_graph_live fetches the item appended last.
C11_SingleSlot ==
    /\ [](Len(graph_latest) = 1 /\ Len(paused) = 1)
    /\ [](nMsgs = 0 =>
            /\ Snapshot = [msg |-> [clear |-> TRUE, idn |-> "-"],
                           data |-> [cols |-> IF kind = "it_measurement" THEN 3 ELSE 4,
                                     rows |-> <<>>]]
            /\ paused[1] = [repr |-> "False"])
    /\ [][/\ graph_latest' # graph_latest => graph_latest'[1].msg = h_payload'
          /\ paused' # paused => paused'[1] = h_payload'
          /\ (r_pc = "fetch" /\ r_pc' = "format")
                => r_latest' = graph_latest[Len(graph_latest)]]_vars

\* C11 witness: two data messages were pushed one after the other and a poll that
\* began afterwards has fetched the item of the second push.
C11_Witness ==
    /\ r_pc = "format" /\ h_pc = "idle" /\ nMsgs = 2
    /\ r_latest = graph_latest[1] /\ r_latest.msg.idn = "b"
    /\ \E q \in pushed : q.msg.idn = "a"

\* a step that delivers a message on topic t to on_message
Delivers(t) == h_pc = "idle" /\ nMsgs' = nMsgs + 1 /\ h_msg'.topic = t

\* C12: the config is the empty mapping until a measurement/run message is handled;
\* handling one makes the config that message's "config" field, whole; no other
\* step changes the config; and a measurement/run message leaves the snapshot, its
\* Series and the pause flag as they were and hands nothing to the republisher.
C12_ConfigReplaceOnly ==
    /\ [](nMsgs = 0 => DOMAIN config = {})
    /\ [][/\ (Delivers(RunTopic) /\ h_exc' = "none")
                => config' = PickleLoads(h_msg'.payload).config
          /\ ~(Delivers(RunTopic) /\ h_exc' = "none") => config' = config
          /\ Delivers(RunTopic)
                => (h_pc' = "idle" /\ UNCHANGED <<graph_latest, heap, paused, workers, pushed>>)]_vars

\* C12 witness: a measurement/run message was handled after a data message and a
\* pause message; the config is its one-field configuration.
C12_Witness ==
    /\ h_pc = "idle" /\ h_msg.topic = RunTopic /\ h_exc = "none" /\ nMsgs = 3
    /\ config = [user |-> "x"]
    /\ Len(Series.rows) > 0 /\ paused[1] = Py("True")

\* a topic that on_message has no branch for
Unrecognized(t) == t \notin {RawTopic(kind), RunTopic, PauseTopic}

\* C13 (as claimed): a message on an unrecognized topic leaves the snapshot, its
\* Series, the pause flag and the config as they were, hands nothing to the
\* republisher, and on_message returns without raising.
C13_UnrecognizedAsClaimed ==
    [][(h_pc = "idle" /\ nMsgs' = nMsgs + 1 /\ Unrecognized(h_msg'.topic)) =>
          /\ UNCHANGED <<graph_latest, heap, paused, config, workers, pushed>>
          /\ h_pc' = "idle" /\ h_exc' = "none"]_vars

\* C13 (amended): a message on an unrecognized topic leaves the snapshot, its
\* Series, the pause flag and the config as they were and hands nothing to the
\* republisher; on_message returns without raising when the payload can be decoded
\* and raises the decode failure when it cannot.
C13_UnrecognizedIgnored ==
    [][Delivers(h_msg'.topic) /\ Unrecognized(h_msg'.topic) =>
          /\ UNCHANGED <<graph_latest, heap, paused, config, workers, pushed>>
          /\ h_pc' = "idle"
          /\ h_exc' = IF PickleLoadsOk(h_msg'.payload) THEN "none" ELSE "UnpicklingError"]_vars

\* C13 witness: a decodable message on the other plotter's data topic was handled
\* while the Series had rows.
C13_Witness ==
    /\ h_pc = "idle" /\ h_exc = "none" /\ nMsgs > 1
    /\ h_msg.topic \in {RawTopic(o) : o \in Kinds \ {kind}}
    /\ PickleLoadsOk(h_msg.payload)
    /\ Len(Series.rows) > 0

\* the claim's order of a worker's steps: created, connected, loop started,
\* published, acknowledged, loop stopped, disconnected
ProtocolOrder == <<"started", "connected", "looping", "waiting", "acked", "stopped", "done">>

Position(pc) == CHOOSE n \in 1..Len(ProtocolOrder) : ProtocolOrder[n] = pc

\* C14: every worker started stays, with the topic and the record it was started
\* with; each step of a worker moves that worker alone, by exactly one place in the
\* order connect, loop start, publish, acknowledgement, loop stop, disconnect (or
\* ends it when connect raises): so it publishes once, stops its loop and
\* disconnects only after its own acknowledgement, and while the acknowledgement
\* has not arrived it stays waiting.
C14_WorkerProtocol ==
    [][/\ Len(workers') >= Len(workers)
       /\ \A i \in 1..Len(workers) :
             /\ workers'[i].topic = workers[i].topic
             /\ workers'[i].payload = workers[i].payload
             /\ workers'[i].pc # workers[i].pc =>
                   /\ \A n \in 1..Len(workers) : n # i => workers'[n] = workers[n]
                   /\ workers[i].pc \in {ProtocolOrder[n] : n \in 1..6}
                   /\ \/ workers[i].pc = "started" /\ workers'[i].pc = "raised"
                      \/ /\ workers'[i].pc \in {ProtocolOrder[n] : n \in 2..7}
                         /\ Position(workers'[i].pc) = Position(workers[i].pc) + 1]_vars

\* C14 witness: the second worker has connected, published, been acknowledged and
\* disconnected while the first still waits for its own acknowledgement.
C14_Witness ==
    /\ Len(workers) = 2
    /\ workers[1].pc = "waiting" /\ workers[2].pc = "done"

\* process_ivt / process_iv returns its rows in this step
Derives == h_pc = "process" /\ h_pc' = "fold"

\* C15: no worker exists before the first message; a step starts one worker when
\* process_ivt / process_iv returns and no step starts one otherwise, so one message
\* starts at most one; the worker's topic is data/processed/<kind> and its record is
\* the message being handled with the derived rows as its data (raw rows followed
\* by j and p when the area is positive); the processor runs only for a message on
\* the plotter's data topic whose clear is not True, never for a clear, a
\* measurement/run or a plotter/pause message.
C15_RepublicationCount ==
    /\ [](nMsgs = 0 => Len(workers) = 0)
    /\ [](Len(workers) - h_w0 \in {0, 1})
    /\ [](h_pc = "process" => (h_msg.topic = RawTopic(kind) /\ LastRaw.clear # TRUE))
    /\ [][/\ Len(workers') = Len(workers) + (IF Derives THEN 1 ELSE 0)
          /\ SubSeq(workers', 1, Len(workers)) = workers
          /\ Derives =>
                LET w == workers'[Len(workers')]
                    raw == PickleLoads(h_msg.payload)
                IN  /\ w.topic = "data/processed/" \o kind
                    /\ PickleLoadsOk(w.payload)
                    /\ Without(PickleLoads(w.payload), "data") = Without(raw, "data")
                    /\ PickleLoads(w.payload).data = h_pdata'
                    /\ raw.pixel.area > 0 => PickleLoads(w.payload).data = Augmented(raw)]_vars

\* C15 witness: three messages were handled; the two that were data messages with
\* a derivation each started a worker with its own record, and the clear message
\* that followed started none.
C15_Witness ==
    /\ HandledClear /\ nMsgs = 3 /\ Len(workers) = 2
    /\ workers[1].payload # workers[2].payload

\* the snapshot that handling the decoded data-topic payload raw leaves, as a
\* function of raw and of the snapshot found: a function of nothing else, the
\* pause flag included
Ingest(before, raw) ==
    IF "clear" \notin DOMAIN raw THEN before
    ELSE IF raw.clear = TRUE THEN [msg |-> raw, data |-> NpEmpty(SeriesCols(kind))]
    ELSE LET r == process(raw, kind) IN
         IF r.exc # "none" THEN before
         ELSE IF kind = "it_measurement"
         THEN IF Len(r.pdata) < 5 THEN before
              ELSE [msg |-> r.payload, data |-> AppendPoint(before.data, r.pdata)]
         ELSE IF \E i \in 1..Len(r.pdata) : Len(r.pdata[i]) < 5 THEN before
         ELSE IF Len(before.data.rows) = 0
         THEN [msg |-> r.payload, data |-> SeedTable(Columns04(r.pdata))]
         ELSE IF ~Broadcasts(Columns04(r.pdata), before.data) THEN before
         ELSE [msg |-> r.payload,
               data |-> [before.data EXCEPT !.rows =
                           [i \in 1..Len(before.data.rows) |->
                               WriteRow(before.data, Columns04(r.pdata), i).rows[i]]]]

\* the records that handling raw hands to the republisher, as a function of raw
Spawned(raw) ==
    IF "clear" \notin DOMAIN raw \/ raw.clear = TRUE \/ process(raw, kind).exc # "none"
    THEN <<>>
    ELSE <<[topic |-> process(raw, kind).topic, payload |-> process(raw, kind).bytes,
            pc |-> "started"]>>

\* C16: ingestion is a function of the data and config messages alone. A
\* plotter/pause message changes nothing but the pause flag; a message on the data
\* topic leaves the snapshot Ingest gives for it and the snapshot it found, and
\* starts the workers Spawned gives for it, whatever the pause flag holds; any other
\* message leaves snapshot and workers as they were; and the config changes only to
\* the "config" field of a measurement/run message.
C16_PauseDoesNotAffectIngestion ==
    /\ [](h_pc = "idle" /\ nMsgs > 0 =>
            IF h_msg.topic = RawTopic(kind) /\ PickleLoadsOk(h_msg.payload)
            THEN /\ Snapshot = Ingest(h_before, LastRaw)
                 /\ workers = SubSeq(workers, 1, h_w0) \o Spawned(LastRaw)
            ELSE Snapshot = h_before /\ Len(workers) = h_w0)
    /\ [][/\ Delivers(PauseTopic) => UNCHANGED <<graph_latest, heap, config, workers, pushed>>
          /\ paused' # paused => Delivers(PauseTopic)
          /\ config' # config =>
                (Delivers(RunTopic) /\ config' = PickleLoads(h_msg'.payload).config)]_vars

\* C16 witness: a data message was folded in and pushed, and its record handed to
\* the republisher, while the pause flag held True, after a message handled while
\* it held False.
C16_Witness ==
    /\ HandledSweep /\ h_exc = "none" /\ nMsgs = 3
    /\ paused[1] = Py("True")
    /\ Len(h_before.data.rows) > 0
    /\ Snapshot # h_before /\ Len(workers) = 2

C18_AppendOnly ==
    (kind = "it_measurement" /\ h_pc = "idle" /\ nMsgs > 0) =>
        /\ (HandledSweep /\ h_exc = "none") =>
              LET n == Len(h_before.data.rows) IN
              /\ Len(Series.rows) = n + 1
              /\ Series.rows[n + 1][2] = TrueDiv(LastRaw.data[2] * 1000, LastRaw.pixel.area)
              /\ Series.rows[n + 1][3] = LastRaw.data[3]
              /\ \A i \in 1..n : /\ Series.rows[i][2] = h_before.data.rows[i][2]
                                 /\ Series.rows[i][3] = h_before.data.rows[i][3]
        /\ Len(Series.rows) < Len(h_before.data.rows) => HandledClear

\* the payload object of a data message once on_message has handled it: the
\* decoded mapping, whose "data" the processor has replaced by the derived rows
HandledPayload(raw) == IF raw.clear = TRUE THEN raw ELSE process(raw, kind).payload

\* the Series has zero rows exactly when the metadata's clear is True
ClearedAgree == (Len(Series.rows) = 0) <=> (Snapshot.msg.clear = TRUE)

\* the metadata is the payload of the last data message handled without an
\* exception: that of the message just handled if it is one, else the one found
LatestMetadata ==
    /\ nMsgs = 0 => Snapshot.msg = [clear |-> TRUE, idn |-> "-"]
    /\ nMsgs > 0 =>
          Snapshot.msg = IF HandledData /\ h_exc = "none" THEN HandledPayload(LastRaw)
                         ELSE h_before.msg

\* C19 (as claimed): in every state the cached Series has zero rows exactly when
\* the cached metadata has clear True; the metadata is the payload of the last data
\* message handled without an exception; and the Series cached with it is the
\* Series that message pushed, so that the idn belongs to the Series shown.
C19_MetadataAgreesWithSeries ==
    /\ ClearedAgree
    /\ LatestMetadata
    /\ Snapshot \in pushed

\* C20: in the current-vs-voltage plotter the cached Series always has 4 columns;
\* while a message is being handled it has the rows it had when the message came;
\* once the message is handled its row count differs from the one found only
\* after a clear (zero rows) or after a sweep handled on an empty Series (that
\* sweep's row count); so it is the row count of the sweep that seeded the table,
\* whatever the row counts of the sweeps handled since.
C20_FixedRowCount ==
    kind = "iv_measurement" =>
        /\ Series.cols = 4
        /\ \A i \in 1..Len(Series.rows) : Len(Series.rows[i]) = 4
        /\ h_pc # "idle" => Len(Series.rows) = Len(h_before.data.rows)
        /\ (h_pc = "idle" /\ nMsgs > 0 /\ Len(Series.rows) # Len(h_before.data.rows)) =>
              \/ HandledClear /\ Len(Series.rows) = 0
              \/ /\ HandledSweep /\ Len(h_before.data.rows) = 0
                 /\ Len(Series.rows) = Len(LastRaw.data)
        /\ (h_pc = "idle" /\ scan0 # NoScan) => Len(Series.rows) = Len(scan0.bj)

\* C20 witness: a table seeded by a two-row sweep has taken a later sweep of one
\* row and still has two rows.
C20_Witness ==
    /\ kind = "iv_measurement" /\ HandledSweep /\ h_exc = "none"
    /\ Len(scan0.bj) = 2 /\ scan1 # NoScan /\ Len(LastRaw.data) = 1
    /\ Len(Series.rows) = 2 /\ Snapshot # h_before

====
